---- MODULE Spec2Model ----
(***************************************************************************)
(* Model of the Python sample clients of aiia-core-unity:                  *)
(*   livelink_client.py        LiveLinkClient and interactive_demo         *)
(*   mcp_http_client_test.py   test_mcp_http (MCP over HTTP + SSE)         *)
(*   mcp_client_test.py        test_mcp (MCP over a WebSocket)             *)
(* One run of the model is one run of one of the scripts, or of a caller    *)
(* that drives LiveLinkClient through its public methods; the Scene Host   *)
(* is the environment and chooses every message and every failure.         *)
(***************************************************************************)
EXTENDS Integers, Sequences, FiniteSets, TLC

VARIABLES
    prog,           \* what runs: "livelink" (interactive_demo), "api" (any other
                    \* caller of LiveLinkClient), "simple" (simple_demo),
                    \* "mcp_http" or "mcp_ws"
    pc,             \* position of the script's single thread of control
    websocket,      \* LiveLinkClient.websocket: "None" or "ws"
    sockOpen,       \* the transport behind the handle is open
    sockOpened,     \* a transport was opened at some point of the run
    request_id,     \* LiveLinkClient.request_id, the counter
    scene_objects,  \* LiveLinkClient.scene_objects: uuid -> object
    awaiting,       \* the local request_id of the last send_command call
    data,           \* connect's / send_command's local data: the message parsed
                    \* by the last recv(), NoMsg outside these methods
    result,         \* the value the last send_command call returned
    cmd,            \* interactive_demo's local cmd
    exc,            \* the exception in flight, "none" when there is none
    sent,           \* everything the script wrote to the wire, in order
    uuid,           \* test_mcp / test_mcp_http local uuid
    response,       \* test_mcp / test_mcp_http local response
    status,         \* resp.status of the last HTTP exchange
    recvCount,      \* number of websocket.recv() calls test_mcp completed
    clock,          \* deciseconds passed inside the SSE read loop
    closeCalls,     \* close() calls made on the socket the client opened last
    disconnectCalls,\* disconnect() calls the caller made in a row: 0, 1, or 2
                    \* for two or more
    hostLog,        \* SpecHost: every message the Scene Host sent, in order
    nread,          \* SpecHost: how many of them recv() has returned
    callArgs        \* SpecArgs: the arguments of the last wrapper call

vars == <<prog, pc, websocket, sockOpen, sockOpened, request_id,
          scene_objects, awaiting, data, result, cmd, exc, sent, uuid,
          response, status, recvCount, clock, closeCalls, disconnectCalls,
          hostLog, nread, callArgs>>

\* what only SpecHost and SpecArgs change
scenarioVars == <<hostLog, nread, callArgs>>

(***************************************************************************)
(* Bounds of the model.                                                    *)
(***************************************************************************)
\* commands one session issues
MaxRequests == 2
\* objects carried by one scene_dump or sync message
MaxObjs == 1

(***************************************************************************)
(* Values on the wire.                                                     *)
(***************************************************************************)
\* dict.get on a missing key
None == "None"

Last(s) == s[Len(s)]

Uuids == {"u1", "u2"}

\* An object of a scene_dump or sync: uuid is what obj.get("uuid") yields,
\* None standing for every falsy outcome (key missing, null, empty string);
\* ver stands for the rest of the object (name, transform).
SceneObjects ==
    {[uuid |-> None, ver |-> 1], [uuid |-> "u1", ver |-> 1],
     [uuid |-> "u1", ver |-> 2], [uuid |-> "u2", ver |-> 1]}

ObjectLists == UNION {[1..n -> SceneObjects] : n \in 0..MaxObjs}

NoMsg == [type |-> "nothing", request_id |-> <<>>, objects |-> <<>>, data |-> None]

\* f"py-{n:04d}": the decimal digits of n, padded with zeros to width 4
DigitChars == <<"0", "1", "2", "3", "4", "5", "6", "7", "8", "9">>

RECURSIVE Digits(_)
Digits(n) ==
    IF n < 10 THEN <<DigitChars[n + 1]>>
    ELSE Digits(n \div 10) \o <<DigitChars[(n % 10) + 1]>>

RECURSIVE ZeroPad(_, _)
ZeroPad(s, width) == IF Len(s) >= width THEN s ELSE ZeroPad(<<"0">> \o s, width)

IdWidth == 4

\* the id of a client whose counter stays at 1
FormatRequestIdOnce(n) == <<"p", "y", "-">> \o ZeroPad(Digits(1), IdWidth)

FormatRequestId(n) == <<"p", "y", "-">> \o ZeroPad(Digits(n), IdWidth)

\* The request_id values a server message may carry: every id the session can
\* allocate, an id of the same number without padding, or none.
WireIds ==
    {FormatRequestId(n) : n \in 1..MaxRequests}
        \cup {<<"p", "y", "-">> \o Digits(1), <<>>}

\* The "data" field of a response: missing, a dict, or a truthy non-dict.
RespData == {None, "dict", "nondict"}

ServerMessages ==
    [type : {"scene_dump", "sync"}, request_id : {<<>>}, objects : ObjectLists,
     data : {None}]
        \cup [type : {"response"}, request_id : WireIds, objects : {<<>>},
              data : RespData]
        \cup [type : {"other", None}, request_id : {FormatRequestId(1), <<>>},
              objects : {<<>>}, data : {None}]

\* no call of spawn or transform is in progress
NoArgs == [wrapper |-> None, position |-> None, rotation |-> None,
           name |-> None, scale |-> None]

(***************************************************************************)
(* LiveLinkClient                                                          *)
(***************************************************************************)
\* for obj in objects: uuid = obj.get("uuid"); if uuid: cache[uuid] = obj
RECURSIVE StoreObjects(_, _)
StoreObjects(cache, objects) ==
    IF objects = <<>> THEN cache
    ELSE LET obj == Head(objects)
             next == IF obj.uuid # None
                     THEN [u \in (DOMAIN cache) \cup {obj.uuid} |->
                              IF u = obj.uuid THEN obj ELSE cache[u]]
                     ELSE cache
         IN StoreObjects(next, Tail(objects))

EmptyCache == [u \in {} |-> NoMsg]

\* _process_scene_dump without its self.scene_objects.clear()
process_scene_dump_no_clear(cache, msg) == StoreObjects(cache, msg.objects)

_process_scene_dump(cache, msg) == StoreObjects(EmptyCache, msg.objects)

_process_sync(cache, msg) == StoreObjects(cache, msg.objects)

\* the receive loop's first test without its request_id comparison
IsMatchAnyResponse(msg, rid) == msg.type = "response"

\* The branches of send_command's receive loop.
IsMatch(msg, rid) == msg.type = "response" /\ msg.request_id = rid

\* the receive loop treating a response it does not return as a scene_dump
DispatchResponseAsDump(cache, msg) ==
    IF msg.type \in {"scene_dump", "response"}
    THEN StoreObjects(EmptyCache, msg.objects)
    ELSE IF msg.type = "sync" THEN StoreObjects(cache, msg.objects)
    ELSE cache

\* the receive loop with a last branch that resets the cache
DispatchUnknownClears(cache, msg) ==
    IF msg.type = "scene_dump" THEN StoreObjects(EmptyCache, msg.objects)
    ELSE IF msg.type = "sync" THEN StoreObjects(cache, msg.objects)
    ELSE EmptyCache

Dispatch(cache, msg) ==
    IF msg.type = "scene_dump" THEN _process_scene_dump(cache, msg)
    ELSE IF msg.type = "sync" THEN _process_sync(cache, msg)
    ELSE cache

(***************************************************************************)
(* interactive_demo                                                        *)
(***************************************************************************)
\* the command type and payload keys the typed wrapper hands to send_command
CommandType(c) ==
    IF c = "spawn" THEN "spawn" ELSE IF c = "ping" THEN "ping" ELSE "scene_dump"

CommandPayload(c) ==
    IF c = "spawn" THEN {"prefab_key", "position", "name"} ELSE {}

\* the except clauses of interactive_demo: what the function swallows
Caught(e) == e \in {"none", "ConnectionRefused", "KeyboardInterrupt"}

\* An exception leaves the method that raised it: interactive_demo goes to
\* its finally block, any other caller is left with the exception.
Raise(e) ==
    /\ exc' = e
    /\ pc' = IF prog = "api" THEN "raised" ELSE "finally"

\* client.connect(), first half: websockets.connect(self.uri)
Connect ==
    /\ prog = "livelink" /\ pc = "start"
    /\ \/ /\ websocket' = "ws"
          /\ sockOpen' = TRUE
          /\ sockOpened' = TRUE
          /\ closeCalls' = 0
          /\ pc' = "connect_recv"
          /\ exc' = exc
       \/ /\ \E e \in {"ConnectionRefused", "OSError"} : Raise(e)
          /\ UNCHANGED <<websocket, sockOpen, sockOpened, closeCalls>>
    /\ UNCHANGED <<prog, scenarioVars, disconnectCalls, request_id,
                   scene_objects, awaiting, data, result, cmd, sent, uuid,
                   response, status, recvCount, clock>>

\* what connect does with the first message m
ConnectRecvMsg(m) ==
    /\ data' = m
    /\ scene_objects' = IF m.type = "scene_dump"
                        THEN _process_scene_dump(scene_objects, m)
                        ELSE scene_objects
    /\ pc' = "connect_return"
    /\ exc' = exc

\* client.connect(), second half: the first recv() and its scene_dump
ConnectRecv ==
    /\ prog \in {"livelink", "api"} /\ pc = "connect_recv"
    /\ \/ \E m \in ServerMessages : ConnectRecvMsg(m)
       \/ /\ Raise("ConnectionClosed")
          /\ UNCHANGED <<data, scene_objects>>
    /\ UNCHANGED <<prog, scenarioVars, closeCalls, disconnectCalls, websocket,
                   sockOpen, sockOpened, request_id, awaiting, result, cmd,
                   sent, uuid, response, status, recvCount, clock>>

\* client.connect(): return self
ConnectReturn ==
    /\ prog \in {"livelink", "api"} /\ pc = "connect_return"
    /\ data' = NoMsg
    /\ pc' = IF prog = "api" THEN "idle" ELSE "prompt"
    /\ UNCHANGED <<prog, scenarioVars, closeCalls, disconnectCalls, websocket,
                   sockOpen, sockOpened, request_id, scene_objects, awaiting,
                   result, cmd, exc, sent, uuid, response, status, recvCount,
                   clock>>

\* cmd = input("> "): the commands that need no round trip
Input ==
    /\ prog = "livelink" /\ pc = "prompt"
    /\ \E c \in {"quit", "EOF", "list", "unknown"} :
          /\ cmd' = c
          /\ pc' = IF c \in {"quit", "EOF"} THEN "finally" ELSE "prompt"
    /\ UNCHANGED <<prog, scenarioVars, closeCalls, disconnectCalls, websocket,
                   sockOpen, sockOpened, request_id, scene_objects, awaiting,
                   data, result, exc, sent, uuid, response, status, recvCount,
                   clock>>

\* send_command taking its request id before it tests the connection
send_command_id_first(type, payload) ==
    /\ request_id' = request_id + 1
    /\ awaiting' = FormatRequestId(request_id + 1)
    /\ IF websocket = None
       THEN /\ Raise("RuntimeError")
            /\ sent' = sent
       ELSE \/ /\ sent' = Append(sent, [type |-> type,
                                         request_id |-> FormatRequestId(request_id + 1),
                                         payload |-> payload])
               /\ pc' = "recv_loop"
               /\ exc' = "none"
            \/ /\ Raise("ConnectionClosed")
               /\ sent' = sent

\* send_command up to and including websocket.send
send_command(type, payload) ==
    IF websocket = None
    THEN /\ Raise("RuntimeError")
         /\ UNCHANGED <<request_id, awaiting, sent>>
    ELSE /\ request_id' = request_id + 1
         /\ awaiting' = FormatRequestId(request_id + 1)
         /\ \/ /\ sent' = Append(sent, [type |-> type,
                                        request_id |-> FormatRequestId(request_id + 1),
                                        payload |-> payload])
               /\ pc' = "recv_loop"
               /\ exc' = "none"
            \/ /\ Raise("ConnectionClosed")
               /\ sent' = sent

\* cmd = input("> "): spawn, ping and refresh call send_command
Command ==
    /\ prog = "livelink" /\ pc = "prompt"
    /\ request_id < MaxRequests
    /\ \E c \in {"spawn", "ping", "refresh"} :
          /\ cmd' = c
          /\ send_command(CommandType(c), CommandPayload(c))
    /\ UNCHANGED <<prog, scenarioVars, closeCalls, disconnectCalls, websocket,
                   sockOpen, sockOpened, scene_objects, data, result, uuid,
                   response, status, recvCount, clock>>

\* what one turn of send_command's loop does with the message m
RecvMsg(m) ==
    /\ data' = m
    /\ IF IsMatch(m, awaiting)
       THEN /\ result' = m
            /\ pc' = "after_command"
            /\ scene_objects' = scene_objects
       ELSE /\ scene_objects' = Dispatch(scene_objects, m)
            /\ pc' = "recv_loop"
            /\ result' = result
    /\ exc' = exc

\* a loop that writes the envelope again after each message it passes over
RecvResending ==
    /\ prog \in {"livelink", "api"} /\ pc = "recv_loop"
    /\ \E m \in ServerMessages :
          /\ RecvMsg(m)
          /\ sent' = IF IsMatch(m, awaiting) THEN sent
                     ELSE Append(sent, Last(sent))
    /\ UNCHANGED <<prog, scenarioVars, closeCalls, disconnectCalls, websocket,
                   sockOpen, sockOpened, request_id, awaiting, cmd, uuid,
                   response, status, recvCount, clock>>

\* one turn of send_command's while True loop
Recv ==
    /\ prog \in {"livelink", "api"} /\ pc = "recv_loop"
    /\ \/ \E m \in ServerMessages : RecvMsg(m)
       \/ /\ Raise("ConnectionClosed")
          /\ data' = NoMsg
          /\ UNCHANGED <<result, scene_objects>>
    /\ UNCHANGED <<prog, scenarioVars, closeCalls, disconnectCalls, websocket,
                   sockOpen, sockOpened, request_id, awaiting, cmd, sent,
                   uuid, response, status, recvCount, clock>>

\* what interactive_demo does with the returned response
AfterCommand ==
    /\ prog = "livelink" /\ pc = "after_command"
    /\ IF cmd = "spawn" /\ result.data = "nondict"
       THEN Raise("AttributeError")
       ELSE pc' = "prompt" /\ exc' = exc
    /\ data' = NoMsg
    /\ UNCHANGED <<prog, scenarioVars, closeCalls, disconnectCalls, websocket,
                   sockOpen, sockOpened, request_id, scene_objects, awaiting,
                   result, cmd, sent, uuid, response, status, recvCount,
                   clock>>

\* Ctrl-C while the session waits inside the try block
Interrupt ==
    /\ prog = "livelink"
    /\ pc \in {"start", "connect_recv", "prompt", "recv_loop"}
    /\ Raise("KeyboardInterrupt")
    /\ data' = NoMsg
    /\ UNCHANGED <<prog, scenarioVars, closeCalls, disconnectCalls, websocket,
                   sockOpen, sockOpened, request_id, scene_objects, awaiting,
                   result, cmd, sent, uuid, response, status, recvCount,
                   clock>>

\* disconnect dropping the handle without awaiting close()
disconnect_without_close ==
    /\ websocket' = None
    /\ sockOpen' = sockOpen
    /\ closeCalls' = closeCalls

\* disconnect without its self.websocket = None
disconnect_keeping_handle ==
    IF websocket # None
    THEN /\ sockOpen' = FALSE
         /\ closeCalls' = closeCalls + 1
         /\ websocket' = websocket
    ELSE UNCHANGED <<websocket, sockOpen, closeCalls>>

\* LiveLinkClient.disconnect
disconnect ==
    IF websocket # None
    THEN /\ sockOpen' = FALSE
         /\ closeCalls' = closeCalls + 1
         /\ websocket' = None
    ELSE UNCHANGED <<websocket, sockOpen, closeCalls>>

\* finally: await client.disconnect(), then return or re-raise
Finally ==
    /\ prog = "livelink" /\ pc = "finally"
    /\ disconnect
    /\ pc' = IF Caught(exc) THEN "returned" ELSE "propagated"
    /\ UNCHANGED <<prog, scenarioVars, disconnectCalls, sockOpened,
                   request_id, scene_objects, awaiting, data, result, cmd,
                   exc, sent, uuid, response, status, recvCount, clock>>

(***************************************************************************)
(* interactive_demo against a Scene Host whose messages queue on the       *)
(* socket until a recv() takes them                                        *)
(***************************************************************************)
\* messages the Scene Host sends in one run
MaxHostMsgs == 3

\* scene_dump{scene_name: "Test", object_count: 0, objects: []}
EmptySceneDump ==
    [type |-> "scene_dump", request_id |-> <<>>, objects |-> <<>>, data |-> None]

\* the response to the session's first command, with a dict as its data
FirstResponse ==
    [type |-> "response", request_id |-> FormatRequestId(1), objects |-> <<>>,
     data |-> "dict"]

\* a sync carrying the one object u1
SyncOfSpawned ==
    [type |-> "sync", request_id |-> <<>>,
     objects |-> <<[uuid |-> "u1", ver |-> 1]>>, data |-> None]

HostMessages == {EmptySceneDump, FirstResponse, SyncOfSpawned}

\* the Scene Host writes a message to the open connection
HostSend ==
    /\ prog = "livelink" /\ sockOpen
    /\ Len(hostLog) < MaxHostMsgs
    /\ \E m \in HostMessages : hostLog' = Append(hostLog, m)
    /\ UNCHANGED <<prog, pc, nread, callArgs, closeCalls, disconnectCalls,
                   websocket, sockOpen, sockOpened, request_id, scene_objects,
                   awaiting, data, result, cmd, exc, sent, uuid, response,
                   status, recvCount, clock>>

\* await self.websocket.recv(): the oldest message not yet taken
NextQueued == hostLog[nread + 1]

\* client.connect(), second half, taking the message from the queue
HostConnectRecv ==
    /\ prog = "livelink" /\ pc = "connect_recv"
    /\ \/ /\ nread < Len(hostLog)
          /\ ConnectRecvMsg(NextQueued)
          /\ nread' = nread + 1
       \/ /\ Raise("ConnectionClosed")
          /\ UNCHANGED <<data, scene_objects, nread>>
    /\ UNCHANGED <<prog, hostLog, callArgs, closeCalls, disconnectCalls,
                   websocket, sockOpen, sockOpened, request_id, awaiting,
                   result, cmd, sent, uuid, response, status, recvCount,
                   clock>>

\* one turn of send_command's loop, taking the message from the queue
HostRecv ==
    /\ prog = "livelink" /\ pc = "recv_loop"
    /\ \/ /\ nread < Len(hostLog)
          /\ RecvMsg(NextQueued)
          /\ nread' = nread + 1
       \/ /\ Raise("ConnectionClosed")
          /\ data' = NoMsg
          /\ UNCHANGED <<result, scene_objects, nread>>
    /\ UNCHANGED <<prog, hostLog, callArgs, closeCalls, disconnectCalls,
                   websocket, sockOpen, sockOpened, request_id, awaiting, cmd,
                   sent, uuid, response, status, recvCount, clock>>

HostNext ==
    \/ Connect \/ HostSend \/ HostConnectRecv \/ ConnectReturn \/ Input
    \/ Command \/ HostRecv \/ AfterCommand \/ Interrupt \/ Finally

(***************************************************************************)
(* Any other caller of LiveLinkClient: its methods in any order            *)
(***************************************************************************)
Wrappers == {"spawn", "transform", "delete", "ping", "request_scene_dump"}

\* the command type each typed wrapper passes to send_command
WrapperType(w) == IF w = "request_scene_dump" THEN "scene_dump" ELSE w

\* the payload keys each typed wrapper builds when called with its mandatory
\* argument only
WrapperPayload(w) ==
    IF w = "spawn" THEN {"prefab_key"}
    ELSE IF w \in {"transform", "delete"} THEN {"uuid"}
    ELSE {}

\* await client.connect() on a client that holds no socket
ApiConnect ==
    /\ prog = "api" /\ pc = "idle"
    /\ websocket = None
    /\ \/ /\ websocket' = "ws"
          /\ sockOpen' = TRUE
          /\ sockOpened' = TRUE
          /\ closeCalls' = 0
          /\ pc' = "connect_recv"
          /\ exc' = "none"
       \/ /\ Raise("ConnectionRefused")
          /\ UNCHANGED <<websocket, sockOpen, sockOpened, closeCalls>>
    /\ disconnectCalls' = 0
    /\ UNCHANGED <<prog, scenarioVars, request_id, scene_objects, awaiting,
                   data, result, cmd, sent, uuid, response, status, recvCount,
                   clock>>

\* await client.spawn(...), transform(...), delete(...), ping() or
\* request_scene_dump(), on a client in any state
ApiCommand ==
    /\ prog = "api" /\ pc = "idle"
    /\ request_id < MaxRequests
    /\ \E w \in Wrappers : send_command(WrapperType(w), WrapperPayload(w))
    /\ disconnectCalls' = 0
    /\ UNCHANGED <<prog, scenarioVars, closeCalls, websocket, sockOpen,
                   sockOpened, scene_objects, data, result, cmd, uuid,
                   response, status, recvCount, clock>>

\* Values a caller passes for a list parameter and for the name parameter,
\* written as Python writes them; "None" is the default of every optional
\* parameter.
ListArgs == {None, "[]", "[0, 2, 0]"}

NameArgs == {None, "''", "'Test Cube'"}

\* bool(v) of an argument value
Truthy(v) == v \notin {None, "[]", "''"}

\* if position: ..., if rotation: ..., if name: ..., if scale: ...
Included(v) == Truthy(v)

Mandatory(w) == IF w = "spawn" THEN "prefab_key" ELSE "uuid"

OptionalKeys(w) ==
    IF w = "spawn" THEN {"position", "rotation", "name"}
    ELSE {"position", "rotation", "scale"}

\* the calls of spawn and transform with every choice of optional arguments
WrapperCalls ==
    [wrapper : {"spawn"}, position : ListArgs, rotation : ListArgs,
     name : NameArgs, scale : {None}]
        \cup [wrapper : {"transform"}, position : ListArgs,
              rotation : ListArgs, name : {None}, scale : ListArgs]

\* the payload keys spawn and transform build from their arguments
PayloadOf(a) ==
    {Mandatory(a.wrapper)} \cup {k \in OptionalKeys(a.wrapper) : Included(a[k])}

\* await client.spawn(...) or client.transform(...) with optional arguments
ApiCommandArgs ==
    /\ prog = "api" /\ pc = "idle"
    /\ request_id < MaxRequests
    /\ \E a \in WrapperCalls :
          /\ callArgs' = a
          /\ send_command(a.wrapper, PayloadOf(a))
    /\ disconnectCalls' = 0
    /\ UNCHANGED <<prog, hostLog, nread, closeCalls, websocket, sockOpen,
                   sockOpened, scene_objects, data, result, cmd, uuid,
                   response, status, recvCount, clock>>

\* send_command returned its response to the caller
ApiReturn ==
    /\ prog = "api" /\ pc = "after_command"
    /\ pc' = "idle"
    /\ exc' = "none"
    /\ data' = NoMsg
    /\ callArgs' = NoArgs
    /\ UNCHANGED <<prog, hostLog, nread, closeCalls, disconnectCalls, websocket,
                   sockOpen, sockOpened, request_id, scene_objects, awaiting,
                   result, cmd, sent, uuid, response, status, recvCount,
                   clock>>

\* await client.disconnect(), on a client in any state
ApiDisconnect ==
    /\ prog = "api" /\ pc = "idle"
    /\ disconnect
    /\ disconnectCalls' = IF disconnectCalls = 0 THEN 1 ELSE 2
    /\ pc' = "idle"
    /\ exc' = "none"
    /\ UNCHANGED <<prog, scenarioVars, sockOpened, request_id, scene_objects,
                   awaiting, data, result, cmd, sent, uuid, response, status,
                   recvCount, clock>>

ApiNext ==
    \/ ApiConnect \/ ConnectRecv \/ ConnectReturn \/ ApiCommand \/ Recv \/ ApiReturn
    \/ ApiDisconnect

\* a caller that uses the optional arguments of spawn and transform
ArgsNext ==
    \/ ApiConnect \/ ConnectRecv \/ ConnectReturn \/ ApiCommandArgs \/ Recv
    \/ ApiReturn \/ ApiDisconnect

LiveLinkNext ==
    \/ Connect \/ ConnectRecv \/ ConnectReturn \/ Input \/ Command \/ Recv \/ AfterCommand
    \/ Interrupt \/ Finally

(***************************************************************************)
(* simple_demo                                                             *)
(***************************************************************************)
\* {"type": "ping", "request_id": "demo-001", "payload": {}}
PingEnvelope ==
    [type |-> "ping",
     request_id |-> <<"d", "e", "m", "o", "-", "0", "0", "1">>,
     payload |-> {}]

\* the Scene Host's answer to that ping
PingResponse ==
    [type |-> "response", request_id |-> PingEnvelope.request_id,
     objects |-> <<>>, data |-> None]

\* ws.send(...) as simple_demo calls it, without await: the call builds a
\* coroutine object and drops it, the body of send never runs and the wire
\* stays as it was
UnawaitedSend(wire, envelope) == wire

\* What the Scene Host can have put on the socket: a push at any time, a
\* response only to a ping that reached it.
HostCanSend ==
    {m \in ServerMessages : m.type # "response"}
        \cup (IF \E i \in DOMAIN sent : sent[i] = PingEnvelope
              THEN {PingResponse} ELSE {})

\* Leaving the async with block closes the socket; simple_demo catches
\* ConnectionRefused only.
SimpleExit(e) ==
    /\ exc' = e
    /\ pc' = IF e \in {"none", "ConnectionRefused"} THEN "returned"
             ELSE "propagated"
    /\ websocket' = None
    /\ sockOpen' = FALSE
    /\ closeCalls' = closeCalls + (IF sockOpen THEN 1 ELSE 0)

\* async with websockets.connect("ws://localhost:8080") as ws
SimpleConnect ==
    /\ prog = "simple" /\ pc = "start"
    /\ \/ /\ websocket' = "ws"
          /\ sockOpen' = TRUE
          /\ sockOpened' = TRUE
          /\ pc' = "dump_recv"
          /\ UNCHANGED <<exc, closeCalls>>
       \/ /\ \E e \in {"ConnectionRefused", "OSError"} : SimpleExit(e)
          /\ sockOpened' = sockOpened
    /\ UNCHANGED <<prog, scenarioVars, disconnectCalls, request_id,
                   scene_objects, awaiting, data, result, cmd, sent, uuid,
                   response, status, recvCount, clock>>

\* data = await ws.recv(); scene = json.loads(data), and its three prints
SimpleRecvDump ==
    /\ prog = "simple" /\ pc = "dump_recv"
    /\ \/ /\ \E m \in ServerMessages : data' = m
          /\ pc' = "ping"
          /\ UNCHANGED <<exc, websocket, sockOpen, closeCalls>>
       \/ /\ SimpleExit("ConnectionClosed")
          /\ data' = data
    /\ UNCHANGED <<prog, scenarioVars, disconnectCalls, sockOpened,
                   request_id, scene_objects, awaiting, result, cmd, sent,
                   uuid, response, status, recvCount, clock>>

\* ws.send(json.dumps({...}))
SimplePing ==
    /\ prog = "simple" /\ pc = "ping"
    /\ sent' = UnawaitedSend(sent, PingEnvelope)
    /\ pc' = "ping_recv"
    /\ UNCHANGED <<prog, scenarioVars, closeCalls, disconnectCalls, websocket,
                   sockOpen, sockOpened, request_id, scene_objects, awaiting,
                   data, result, cmd, exc, uuid, response, status, recvCount,
                   clock>>

\* response = await ws.recv(); result = json.loads(response), the prints
\* that follow and the end of the async with block
SimplePingRecv ==
    /\ prog = "simple" /\ pc = "ping_recv"
    /\ \/ /\ \E m \in HostCanSend : result' = m
          /\ SimpleExit("none")
       \/ /\ SimpleExit("ConnectionClosed")
          /\ result' = result
    /\ UNCHANGED <<prog, scenarioVars, disconnectCalls, sockOpened,
                   request_id, scene_objects, awaiting, data, cmd, sent, uuid,
                   response, status, recvCount, clock>>

SimpleNext == SimpleConnect \/ SimpleRecvDump \/ SimplePing \/ SimplePingRecv

(***************************************************************************)
(* MCP: values on the wire                                                 *)
(***************************************************************************)
\* a JSON-RPC message without an "id" key
NoId == -1

\* A parsed JSON-RPC response: whether it has an "error" key; its "result"
\* (missing, a dict, or something that is no dict); result's "data" (missing,
\* null, a truthy non-dict, or a dict); data's "uuid" (None for every falsy
\* outcome).
McpResponses ==
    {r \in [id : {NoId, 0, 3}, error : BOOLEAN, result : {None, "dict", "nondict"},
            data : {None, "null", "nondict", "dict"}, uuid : {None} \cup Uuids] :
        /\ (r.data # None => r.result = "dict")
        /\ (r.uuid # None => r.data = "dict")}

NoResponse == [id |-> NoId, error |-> FALSE, result |-> None, data |-> None,
               uuid |-> None]

\* the URI of one fixed object, whatever uuid was returned
ObjectUriOfFirst(u) == <<"mcp://unity/scenes/MainScene/objects/", "u1">>

\* f"mcp://unity/scenes/MainScene/objects/{uuid}"
ObjectUri(u) == <<"mcp://unity/scenes/MainScene/objects/", u>>

Request(method, id, name, arg) ==
    [method |-> method, id |-> id, name |-> name, arg |-> arg]

\* The JSON-RPC requests both MCP scripts build, by their id.
JsonRpcRequest(id, u) ==
    CASE id = 0 -> Request("initialize", 0, None, <<>>)
      [] id = 1 -> Request("tools/list", 1, None, <<>>)
      [] id = 2 -> Request("resources/list", 2, None, <<>>)
      [] id = 3 -> Request("tools/call", 3, "spawn_object", <<>>)
      [] id = 4 -> Request("resources/read", 4, None, ObjectUri(u))
      [] id = 5 -> Request("tools/call", 5, "transform_object", <<u>>)

initialized_notification == Request("notifications/initialized", NoId, None, <<>>)

(***************************************************************************)
(* test_mcp_http                                                           *)
(***************************************************************************)
\* an uncaught exception leaves test_mcp_http
HttpRaise(e) ==
    /\ exc' = e
    /\ pc' = "raised"

\* GET /health: session.get either fails, or answers with a status and a
\* body that resp.json() can parse or not.
HealthOutcomes == [transport : BOOLEAN, status : {200, 503}, json : BOOLEAN]

HealthPasses(o) == ~o.transport /\ o.json

Health ==
    /\ prog = "mcp_http" /\ pc = "start"
    /\ sent' = Append(sent, Request("GET /health", NoId, None, <<>>))
    /\ \E o \in HealthOutcomes :
          IF HealthPasses(o)
          THEN status' = o.status /\ pc' = "initialize" /\ exc' = exc
          ELSE status' = status /\ HttpRaise("ClientError")
    /\ UNCHANGED <<prog, scenarioVars, closeCalls, disconnectCalls, websocket,
                   sockOpen, sockOpened, request_id, scene_objects, awaiting,
                   data, result, cmd, uuid, response, recvCount, clock>>

\* the early returns without the "error" test
InitializeOkIgnoringError(r) == r.result # None

\* the two early returns after the initialize response
InitializeOk(r) == ~r.error /\ r.result # None

Initialize ==
    /\ prog = "mcp_http" /\ pc = "initialize"
    /\ sent' = Append(sent, JsonRpcRequest(0, None))
    /\ \/ \E r \in McpResponses :
            /\ response' = r
            /\ IF ~InitializeOk(r) THEN pc' = "aborted" /\ exc' = exc
               ELSE IF r.result = "nondict" THEN HttpRaise("AttributeError")
               ELSE pc' = "initialized" /\ exc' = exc
       \/ HttpRaise("ClientError") /\ response' = response
    /\ UNCHANGED <<prog, scenarioVars, closeCalls, disconnectCalls, websocket,
                   sockOpen, sockOpened, request_id, scene_objects, awaiting,
                   data, result, cmd, uuid, status, recvCount, clock>>

NotificationStatuses == {204, 200, 500}

\* a notification step that gives up on a status other than 204
NotificationNextStrict(st) == IF st = 204 THEN "tools_list" ELSE "aborted"

\* if resp.status == 204: print(...) else: print(...): both branches go on
NotificationNext(st) == "tools_list"

Initialized ==
    /\ prog = "mcp_http" /\ pc = "initialized"
    /\ sent' = Append(sent, initialized_notification)
    /\ \/ \E st \in NotificationStatuses :
            status' = st /\ pc' = NotificationNext(st) /\ exc' = exc
       \/ HttpRaise("ClientError") /\ status' = status
    /\ UNCHANGED <<prog, scenarioVars, closeCalls, disconnectCalls, websocket,
                   sockOpen, sockOpened, request_id, scene_objects, awaiting,
                   data, result, cmd, uuid, response, recvCount, clock>>

\* session.post(...) followed by resp.json(), for a step that only prints
Post(id, next) ==
    /\ sent' = Append(sent, JsonRpcRequest(id, uuid))
    /\ \/ \E r \in McpResponses :
            response' = r /\ pc' = next /\ exc' = exc
       \/ HttpRaise("ClientError") /\ response' = response
    /\ UNCHANGED <<prog, scenarioVars, closeCalls, disconnectCalls, websocket,
                   sockOpen, sockOpened, request_id, scene_objects, awaiting,
                   data, result, cmd, uuid, status, recvCount, clock>>

ToolsList == prog = "mcp_http" /\ pc = "tools_list" /\ Post(1, "resources_list")

ResourcesList == prog = "mcp_http" /\ pc = "resources_list" /\ Post(2, "spawn")

\* uuid = None; if "result" in response: data = response["result"].get("data");
\* if isinstance(data, dict): uuid = data.get("uuid")
HttpExtractUuid(r) ==
    IF r.result # None /\ r.data = "dict" THEN r.uuid ELSE None

\* the follow-up steps without their "if uuid:" guard
HasUuidAlways(u) == TRUE

\* if uuid:
HasUuid(u) == u # None

Spawn ==
    /\ prog = "mcp_http" /\ pc = "spawn"
    /\ sent' = Append(sent, JsonRpcRequest(3, None))
    /\ \/ \E r \in McpResponses :
            /\ response' = r
            /\ IF r.result = "nondict"
               THEN HttpRaise("AttributeError") /\ uuid' = uuid
               ELSE /\ uuid' = HttpExtractUuid(r)
                    /\ pc' = IF HasUuid(HttpExtractUuid(r)) THEN "read"
                             ELSE "sse_connect"
                    /\ exc' = exc
       \/ HttpRaise("ClientError") /\ UNCHANGED <<response, uuid>>
    /\ UNCHANGED <<prog, scenarioVars, closeCalls, disconnectCalls, websocket,
                   sockOpen, sockOpened, request_id, scene_objects, awaiting,
                   data, result, cmd, status, recvCount, clock>>

ReadResource == prog = "mcp_http" /\ pc = "read" /\ Post(4, "transform")

Transform == prog = "mcp_http" /\ pc = "transform" /\ Post(5, "sse_connect")

\* asyncio.sleep(0.1), in deciseconds
SseSleep == 1
\* the 10 seconds of the loop's time comparison, in deciseconds
SseWindow == 100
\* how far past the window the model follows the loop
SseOverrun == 2

\* asyncio.get_event_loop().time() > asyncio.get_event_loop().time() + 10:
\* now is the first reading of the loop's clock, later the second.
DeadlinePassed(now, later) == now > later + SseWindow

\* session.get(f"{base_url}/sse") inside the try block
SseConnect ==
    /\ prog = "mcp_http" /\ pc = "sse_connect"
    /\ sent' = Append(sent, Request("GET /sse", NoId, None, <<>>))
    /\ \/ \E st \in {200, 404} :
            /\ status' = st
            /\ pc' = IF st = 200 THEN "sse_loop" ELSE "done"
            /\ exc' = exc
       \/ /\ exc' = "skipped"
          /\ pc' = "done"
          /\ status' = status
    /\ UNCHANGED <<prog, scenarioVars, closeCalls, disconnectCalls, websocket,
                   sockOpen, sockOpened, request_id, scene_objects, awaiting,
                   data, result, cmd, uuid, response, recvCount, clock>>

\* one turn of "async for line in resp.content": decode, print, sleep, compare
SseLine ==
    /\ prog = "mcp_http" /\ pc = "sse_loop"
    /\ clock < SseWindow + SseOverrun
    /\ \/ /\ clock' = clock + SseSleep
          /\ pc' = IF DeadlinePassed(clock + SseSleep, clock + SseSleep)
                   THEN "done" ELSE "sse_loop"
          /\ exc' = exc
       \/ /\ exc' = "skipped"
          /\ pc' = "done"
          /\ clock' = clock
    /\ UNCHANGED <<prog, scenarioVars, closeCalls, disconnectCalls, websocket,
                   sockOpen, sockOpened, request_id, scene_objects, awaiting,
                   data, result, cmd, sent, uuid, response, status,
                   recvCount>>

\* the server closes the stream, or the session's timeout raises TimeoutError
SseEnd ==
    /\ prog = "mcp_http" /\ pc = "sse_loop"
    /\ \E e \in {"none", "TimeoutError"} : exc' = e
    /\ pc' = "done"
    /\ UNCHANGED <<prog, scenarioVars, closeCalls, disconnectCalls, websocket,
                   sockOpen, sockOpened, request_id, scene_objects, awaiting,
                   data, result, cmd, sent, uuid, response, status, recvCount,
                   clock>>

McpHttpNext ==
    \/ Health \/ Initialize \/ Initialized \/ ToolsList \/ ResourcesList
    \/ Spawn \/ ReadResource \/ Transform \/ SseConnect \/ SseLine \/ SseEnd

(***************************************************************************)
(* test_mcp                                                                *)
(***************************************************************************)
\* except Exception as e: print(f"Error: {e}")
WsCaught(e) ==
    /\ exc' = e
    /\ pc' = "done"

\* websockets.connect(uri)
WsConnect ==
    /\ prog = "mcp_ws" /\ pc = "start"
    /\ \/ pc' = "send" /\ exc' = exc
       \/ WsCaught("OSError")
    /\ UNCHANGED <<prog, scenarioVars, closeCalls, disconnectCalls, websocket,
                   sockOpen, sockOpened, request_id, scene_objects, awaiting,
                   data, result, cmd, sent, uuid, response, status, recvCount,
                   clock>>

\* await websocket.send(json.dumps(request)): the requests follow one another
\* in the order of their ids
WsSend ==
    /\ prog = "mcp_ws" /\ pc = "send"
    /\ \/ /\ sent' = Append(sent, JsonRpcRequest(Len(sent) + 1, uuid))
          /\ pc' = "recv"
          /\ exc' = exc
       \/ WsCaught("ConnectionClosed") /\ sent' = sent
    /\ UNCHANGED <<prog, scenarioVars, closeCalls, disconnectCalls, websocket,
                   sockOpen, sockOpened, request_id, scene_objects, awaiting,
                   data, result, cmd, uuid, response, status, recvCount,
                   clock>>

\* spawn_response["result"].get("data", {}).get("uuid") raises AttributeError
\* when result, or a present data, is no dict
WsExtractRaises(r) ==
    r.result = "nondict" \/ (r.result = "dict" /\ r.data \in {"null", "nondict"})

WsExtractUuid(r) == IF r.result = "dict" /\ r.data = "dict" THEN r.uuid ELSE None

\* a receive that waits for the message with the id of the request
WsRecvMatching ==
    /\ prog = "mcp_ws" /\ pc = "recv"
    /\ \E r \in McpResponses :
          /\ response' = r
          /\ recvCount' = recvCount + 1
          /\ pc' = IF r.id # Len(sent) THEN "recv"
                   ELSE IF Len(sent) = 5 THEN "done" ELSE "send"
          /\ uuid' = IF Len(sent) = 3 THEN r.uuid ELSE uuid
    /\ UNCHANGED <<prog, scenarioVars, closeCalls, disconnectCalls, websocket,
                   sockOpen, sockOpened, request_id, scene_objects, awaiting,
                   data, result, cmd, exc, sent, status, clock>>

\* response = await websocket.recv(), and what follows it up to the next send
WsRecv ==
    /\ prog = "mcp_ws" /\ pc = "recv"
    /\ \/ \E r \in McpResponses :
            /\ response' = r
            /\ recvCount' = recvCount + 1
            /\ IF Len(sent) = 3
               THEN IF WsExtractRaises(r)
                    THEN WsCaught("AttributeError") /\ uuid' = uuid
                    ELSE /\ uuid' = WsExtractUuid(r)
                         /\ pc' = IF HasUuid(WsExtractUuid(r)) THEN "send"
                                  ELSE "done"
                         /\ exc' = exc
               ELSE /\ pc' = IF Len(sent) = 5 THEN "done" ELSE "send"
                    /\ UNCHANGED <<uuid, exc>>
       \/ WsCaught("ConnectionClosed") /\ UNCHANGED <<response, recvCount, uuid>>
    /\ UNCHANGED <<prog, scenarioVars, closeCalls, disconnectCalls, websocket,
                   sockOpen, sockOpened, request_id, scene_objects, awaiting,
                   data, result, cmd, sent, status, clock>>

McpWsNext == WsConnect \/ WsSend \/ WsRecv

InitOf(p) ==
    /\ prog = p
    /\ pc = IF p = "api" THEN "idle" ELSE "start"
    /\ websocket = None
    /\ sockOpen = FALSE
    /\ sockOpened = FALSE
    /\ request_id = 0
    /\ scene_objects = EmptyCache
    /\ awaiting = <<>>
    /\ data = NoMsg
    /\ result = NoMsg
    /\ cmd = ""
    /\ exc = "none"
    /\ sent = <<>>
    /\ uuid = None
    /\ response = NoResponse
    /\ status = 0
    /\ recvCount = 0
    /\ clock = 0
    /\ closeCalls = 0
    /\ disconnectCalls = 0
    /\ hostLog = <<>>
    /\ nread = 0
    /\ callArgs = NoArgs

Init ==
    \E p \in {"livelink", "api", "simple", "mcp_http", "mcp_ws"} : InitOf(p)

Next ==
    \/ Connect \/ ConnectRecv \/ ConnectReturn \/ Input \/ Command \/ Recv \/ AfterCommand
    \/ Interrupt \/ Finally
    \/ ApiConnect \/ ApiCommand \/ ApiReturn \/ ApiDisconnect
    \/ SimpleNext
    \/ McpHttpNext \/ McpWsNext

\* every program
Spec == Init /\ [][Next]_vars

\* python livelink_client.py: interactive_demo
SpecDemo == InitOf("livelink") /\ [][LiveLinkNext]_vars

\* a caller of LiveLinkClient
SpecApi == InitOf("api") /\ [][ApiNext]_vars

\* python mcp_http_client_test.py
SpecHttp == InitOf("mcp_http") /\ [][McpHttpNext]_vars

\* python mcp_client_test.py
SpecWs == InitOf("mcp_ws") /\ [][McpWsNext]_vars

\* both MCP scripts
\* python livelink_client.py --simple: simple_demo
SpecSimple == InitOf("simple") /\ [][SimpleNext]_vars

\* a caller of LiveLinkClient that passes optional arguments
SpecArgs == InitOf("api") /\ [][ArgsNext]_vars

\* interactive_demo with the Scene Host's messages queued on the socket
SpecHost == InitOf("livelink") /\ [][HostNext]_vars

SpecMcp ==
    /\ InitOf("mcp_http") \/ InitOf("mcp_ws")
    /\ [][McpHttpNext \/ McpWsNext]_vars

(***************************************************************************)
(* Properties                                                              *)
(***************************************************************************)
\* this step completed a recv() inside connect or send_command; data' is the
\* message it parsed
Received ==
    /\ pc \in {"connect_recv", "recv_loop"}
    /\ pc' \in {"connect_return", "recv_loop", "after_command"}

\* the uuids carried by the objects of a message
UuidsOf(objects) == {objects[i].uuid : i \in DOMAIN objects} \ {None}

\* the last object of a message that carries uuid u
LastWith(objects, u) ==
    objects[CHOOSE i \in DOMAIN objects :
                /\ objects[i].uuid = u
                /\ \A j \in DOMAIN objects : objects[j].uuid = u => j <= i]

\* this step appended one request to the wire log
SentOne == Len(sent') = Len(sent) + 1

\* C1: the value send_command returns is a message of type "response" whose
\* request_id is the request_id of the envelope this call sent, whatever
\* the server interleaved before it.
ResponseMatchesRequest ==
    pc = "after_command" =>
        /\ result.type = "response"
        /\ result.request_id = Last(sent).request_id

\* C1 witness: the second command of a session has returned its response
\* after pushes filled the cache.
SecondCommandAnswered ==
    /\ pc = "after_command"
    /\ Len(sent) = 2
    /\ result.request_id = FormatRequestId(2)
    /\ scene_objects # EmptyCache

\* C2, scene_dump: once a scene_dump is processed (at connect or inside
\* send_command) the cache holds exactly the uuids of that dump, each mapped
\* to the dump's object of that uuid, and nothing cached before.
SceneDumpReplaces ==
    (Received /\ data'.type = "scene_dump") =>
        /\ DOMAIN scene_objects' = UuidsOf(data'.objects)
        /\ \A u \in DOMAIN scene_objects' :
              scene_objects'[u] = LastWith(data'.objects, u)

\* C2, sync: once a sync is processed every entry cached before is still
\* there, unchanged unless the sync carries its uuid, and every sync object
\* with a uuid is cached.
SyncMerges ==
    (pc = "recv_loop" /\ Received /\ data'.type = "sync") =>
        /\ DOMAIN scene_objects' = DOMAIN scene_objects \cup UuidsOf(data'.objects)
        /\ \A u \in DOMAIN scene_objects' :
              scene_objects'[u] = IF u \in UuidsOf(data'.objects)
                                  THEN LastWith(data'.objects, u)
                                  ELSE scene_objects[u]

\* C2: a scene_dump replaces the cache, a sync merges into it and never
\* removes an entry.
CacheFollowsPushes == [][SceneDumpReplaces /\ SyncMerges]_vars

\* C2 witness: a sync carrying u1 alone has overwritten the cached u1 and
\* left the cached u2 in place.
SyncOverwroteOneOfTwo ==
    /\ pc = "recv_loop"
    /\ data.type = "sync"
    /\ data.objects = <<[uuid |-> "u1", ver |-> 2]>>
    /\ DOMAIN scene_objects = {"u1", "u2"}
    /\ scene_objects["u1"].ver = 2

\* C3: the cache changes only in a step that received a scene_dump or a sync;
\* a step that received a response, matching or not, leaves it as it was.
CacheChangedOnlyByPushes ==
    [][/\ (scene_objects' # scene_objects =>
              Received /\ data'.type \in {"scene_dump", "sync"})
       /\ ((Received /\ data'.type = "response") =>
              scene_objects' = scene_objects)]_vars

\* C3 witness: spawn, then transform, both answered, and the cached u1 still
\* is the object the last push carried.
TransformAnsweredCacheUntouched ==
    /\ pc = "after_command"
    /\ Len(sent) = 2
    /\ sent[1].type = "spawn"
    /\ sent[2].type = "transform"
    /\ result.type = "response"
    /\ "u1" \in DOMAIN scene_objects
    /\ scene_objects["u1"].ver = 1

\* the step that sends tools/list
ToolsListSent == SentOne /\ Last(sent').method = "tools/list"

\* this step received the body of the initialize response
InitializeAnswered ==
    /\ pc = "initialize"
    /\ pc' # "initialize"
    /\ exc' # "ClientError"

\* C4: tools/list is sent only after initialize was answered with a result
\* and no error and notifications/initialized was sent; an initialize
\* response with an error or without a result ends the flow, and nothing is
\* sent after that.
NoRequestWithoutInitialize ==
    [][/\ ToolsListSent =>
              /\ Len(sent) = 3
              /\ sent[2].method = "initialize"
              /\ sent[3] = initialized_notification
              /\ ~response.error
              /\ response.result # None
       /\ (InitializeAnswered /\ (response'.error \/ response'.result = None)) =>
              pc' = "aborted"
       /\ pc = "aborted" => FALSE]_vars

\* C4 witness: initialize was answered with both a result and an error, and
\* the flow stopped with initialize as its last request.
AbortedOnInitializeError ==
    /\ prog = "mcp_http"
    /\ pc = "aborted"
    /\ response.error
    /\ response.result = "dict"
    /\ Last(sent).method = "initialize"

\* C5: in both MCP scripts resources/read is sent only right after a
\* spawn_object response that has a dict result with a dict data with a
\* non-empty uuid, and transform_object only right after that resources/read.
FollowUpsNeedUuid ==
    [][/\ (SentOne /\ Last(sent').method = "resources/read") =>
              /\ Last(sent).name = "spawn_object"
              /\ response.result = "dict"
              /\ response.data = "dict"
              /\ response.uuid # None
       /\ (SentOne /\ Last(sent').name = "transform_object") =>
              Last(sent).method = "resources/read"]_vars

\* C5 witness: the WebSocket script has sent both follow-ups for a spawned
\* u2.
WsFollowUpsSent ==
    /\ prog = "mcp_ws"
    /\ Len(sent) = 5
    /\ uuid = "u2"
    /\ sent[5].name = "transform_object"

\* C6: the SSE read loop does not outlast the 10 seconds it announces.
SseLoopBounded == pc = "sse_loop" => clock <= SseWindow

\* C7: a failing GET /health is only reported: the flow does not end before
\* initialize was sent.
HealthFailureOnlyReported == pc = "raised" => Len(sent) >= 2

LaterSteps == {"tools/list", "resources/list", "tools/call", "resources/read",
               "GET /sse"}

\* C8: once initialize succeeded, no failure of a later step ends the flow
\* with an exception.
LaterFailuresCaught ==
    pc = "raised" => \A i \in 1..Len(sent) : sent[i].method \notin LaterSteps

\* C9: notifications/initialized carries no id, and whatever status answers
\* it the flow goes on to tools/list.
NotificationNeverAborts ==
    [][/\ (pc = "initialized" /\ exc' # "ClientError") =>
              /\ Last(sent') = initialized_notification
              /\ Last(sent').id = NoId
              /\ pc' = "tools_list"
       /\ (pc = "tools_list" /\ SentOne) =>
              Last(sent').method = "tools/list"]_vars

\* C9 witness: the notification was answered with status 500 and tools/list
\* has been sent after it.
ToolsListAfterStatus500 ==
    /\ pc = "resources_list"
    /\ Len(sent) = 4
    /\ sent[3] = initialized_notification
    /\ sent[4].method = "tools/list"
    /\ status = 500

\* C10: when interactive_demo has returned or propagated an exception and a
\* socket was opened, the socket is closed.
SocketClosedOnExit ==
    (pc \in {"returned", "propagated"} /\ sockOpened) =>
        /\ ~sockOpen
        /\ websocket = None

\* C10 witness: a command's recv() raised, the exception left
\* interactive_demo, and the socket that had been opened is closed.
ExceptionPropagatedSocketClosed ==
    /\ pc = "propagated"
    /\ exc = "ConnectionClosed"
    /\ sockOpened
    /\ request_id >= 1
    /\ ~sockOpen

\* C11: disconnect is idempotent.  Every disconnect() call, on a client that
\* never connected, is connected or was disconnected already, returns
\* without an exception and leaves the client without a handle and without
\* an open socket, the socket having been closed at most once; a call that
\* follows another disconnect() changes nothing at all.
DisconnectIdempotent ==
    [][disconnectCalls' > disconnectCalls =>
          /\ pc' = "idle" /\ exc' = "none"
          /\ websocket' = None /\ ~sockOpen'
          /\ closeCalls' <= 1
          /\ closeCalls' = closeCalls + (IF sockOpen THEN 1 ELSE 0)
          /\ UNCHANGED <<request_id, scene_objects, sent>>
          /\ disconnectCalls >= 1 =>
                UNCHANGED <<websocket, sockOpen, closeCalls>>]_vars

\* disconnect() was called twice in a row on a client that had connected
DisconnectedTwice ==
    /\ disconnectCalls = 2 /\ sockOpened
    /\ websocket = None /\ closeCalls = 1

\* C12: connect returns only after a first message that is a scene_dump:
\* when connect is about to return, the message it received is a scene_dump
\* and the cache holds exactly that message's objects with a uuid.
ConnectRequiresSceneDump ==
    pc = "connect_return" =>
        /\ data.type = "scene_dump"
        /\ DOMAIN scene_objects = UuidsOf(data.objects)
        /\ \A u \in DOMAIN scene_objects :
              scene_objects[u] = LastWith(data.objects, u)

\* the messages of the scenario, in the order the Scene Host sends them
ScenarioLog == <<EmptySceneDump, FirstResponse, SyncOfSpawned>>

\* C13: connect, an empty scene_dump, spawn, its response, then a sync with
\* the spawned object sent after the response: the list command entered
\* next, with no other command in between, lists exactly that object.
ScenarioListsSpawned ==
    [][(/\ pc = "prompt" /\ cmd = "spawn" /\ cmd' = "list"
        /\ Len(sent) = 1 /\ sent[1].type = "spawn"
        /\ result = FirstResponse
        /\ hostLog = ScenarioLog) =>
          /\ DOMAIN scene_objects = {"u1"}
          /\ scene_objects["u1"] = [uuid |-> "u1", ver |-> 1]]_vars

\* C14: the payload spawn and transform hand to send_command has the
\* mandatory key and, for each optional parameter, its key exactly when the
\* caller passed a value other than None for it, an empty list or an empty
\* string included; a key in the payload never has the value None.
PayloadKeysIffSupplied ==
    (pc = "recv_loop" /\ callArgs.wrapper # None) =>
        LET payload == Last(sent).payload
        IN /\ Last(sent).type = callArgs.wrapper
           /\ Mandatory(callArgs.wrapper) \in payload
           /\ \A k \in OptionalKeys(callArgs.wrapper) :
                 k \in payload <=> callArgs[k] # None

\* the number a sequence of decimal digits writes
RECURSIVE DigitsValue(_)
DigitsValue(ds) ==
    IF ds = <<>> THEN 0
    ELSE 10 * DigitsValue(SubSeq(ds, 1, Len(ds) - 1))
            + (CHOOSE d \in 0..9 : DigitChars[d + 1] = Last(ds))

\* "py-" followed by at least one decimal digit
IsPyId(id) ==
    /\ Len(id) > 3
    /\ SubSeq(id, 1, 3) = <<"p", "y", "-">>
    /\ \A i \in 4..Len(id) : \E d \in 1..10 : DigitChars[d] = id[i]

\* the sequence number of a request_id of that form
SequenceOf(id) == DigitsValue(SubSeq(id, 4, Len(id)))

\* C15: every envelope a session sent has a request_id "py-<sequence>" whose
\* sequence number is greater than that of every envelope sent before it, so
\* no two envelopes share a request_id.
RequestIdsIncrease ==
    \A i \in DOMAIN sent :
        /\ IsPyId(sent[i].request_id)
        /\ \A j \in 1..(i - 1) :
              /\ SequenceOf(sent[j].request_id) < SequenceOf(sent[i].request_id)
              /\ sent[j].request_id # sent[i].request_id

\* C15 witness: a second command was sent after the first was answered
SecondIdSent ==
    /\ pc = "recv_loop"
    /\ Len(sent) = 2
    /\ request_id = 2
    /\ result.type = "response"

\* the message this step's recv() delivers is one the loop has no branch
\* for: a type other than scene_dump, response and sync, or no type, or a
\* response to another request_id than the awaited one
IgnoredMessage ==
    /\ pc = "recv_loop"
    /\ data' # NoMsg
    /\ \/ data'.type \notin {"scene_dump", "response", "sync"}
       \/ data'.type = "response" /\ data'.request_id # awaiting

\* C16: while send_command waits, a message of an unknown or missing type
\* and a response to another request_id raise nothing, keep send_command
\* waiting and leave cache and counter as they were.
IgnoredMessagesChangeNothing ==
    [][IgnoredMessage =>
          /\ pc' = "recv_loop"
          /\ exc' = "none"
          /\ UNCHANGED <<scene_objects, request_id, awaiting, sent, result,
                         websocket, sockOpen>>]_vars

\* C16 witness: with u1 cached, the wait for py-0001 has just passed over a
\* response that carries the id py-1
MismatchedResponseIgnored ==
    /\ pc = "recv_loop"
    /\ awaiting = FormatRequestId(1)
    /\ data.type = "response"
    /\ data.request_id = <<"p", "y", "-", "1">>
    /\ DOMAIN scene_objects = {"u1"}

\* C17: test_mcp sends its requests with the ids 1, 2, 3, then 4 and 5 only
\* with a uuid, in that order, and completes exactly one recv() between two
\* sends: whenever it is about to send, it has received as many messages as
\* it sent requests, whatever the messages were.
WsStrictAlternation ==
    prog = "mcp_ws" =>
        /\ Len(sent) <= 5
        /\ \A i \in DOMAIN sent : sent[i].id = i
        /\ Len(sent) >= 4 => uuid # None
        /\ pc = "send" => recvCount = Len(sent)
        /\ pc = "recv" => recvCount = Len(sent) - 1
        /\ pc = "done" => recvCount \in {Len(sent) - 1, Len(sent)}
        /\ pc = "start" => sent = <<>> /\ recvCount = 0

\* C17 witness: the one message received after tools/list (id 1) carried the
\* id 3 and an error, and the script goes on to its second request
WsWrongIdTaken ==
    /\ prog = "mcp_ws"
    /\ pc = "send"
    /\ Len(sent) = 1
    /\ recvCount = 1
    /\ response.id = 3
    /\ response.error

\* C18: in test_mcp_http the resources/read request is sent right after the
\* spawn_object response, and its uri is
\* "mcp://unity/scenes/MainScene/objects/" followed by the uuid of that
\* response's result.data; the transform_object call that follows the read
\* carries the same uuid as its arguments.uuid.
FollowUpsTargetSpawnedUuid ==
    [][/\ (SentOne /\ Last(sent').method = "resources/read") =>
              /\ Last(sent).name = "spawn_object"
              /\ response.data = "dict"
              /\ Last(sent').arg =
                    <<"mcp://unity/scenes/MainScene/objects/", response.uuid>>
       /\ (SentOne /\ Last(sent').name = "transform_object") =>
              /\ Last(sent).method = "resources/read"
              /\ Last(sent').arg = <<Last(sent).arg[2]>>]_vars

\* C18 witness: spawn_object returned u2, and both follow-ups were sent for
\* u2
HttpFollowUpsForU2 ==
    /\ prog = "mcp_http"
    /\ Len(sent) = 8
    /\ sent[6].name = "spawn_object"
    /\ sent[7].arg = <<"mcp://unity/scenes/MainScene/objects/", "u2">>
    /\ sent[8].arg = <<"u2">>

\* the message this step's recv() delivers is the response to the envelope
\* sent last
MatchingResponse ==
    /\ data'.type = "response"
    /\ data'.request_id = Last(sent).request_id

\* C19: a send_command call writes one envelope when it starts and nothing
\* after that; it returns only in the step that receives the response with
\* the envelope's request_id, and every other message leaves it waiting.
OneEnvelopeNoReturnWithoutMatch ==
    [][/\ (pc = "idle" /\ pc' = "recv_loop") =>
              /\ sent' = Append(sent, Last(sent'))
              /\ Last(sent').request_id = awaiting'
       /\ pc = "recv_loop" =>
              /\ sent' = sent
              /\ pc' \in {"recv_loop", "after_command", "raised"}
              /\ pc' = "after_command" => MatchingResponse
              /\ (data' # NoMsg /\ ~MatchingResponse) => pc' = "recv_loop"
       /\ pc = "after_command" => sent' = sent]_vars

\* C19 witness: the wait for py-0001 goes on after a response to py-0002
\* arrived, with one envelope written
StillWaitingAfterOtherResponse ==
    /\ pc = "recv_loop"
    /\ Len(sent) = 1
    /\ sent[1].request_id = FormatRequestId(1)
    /\ data.type = "response"
    /\ data.request_id = FormatRequestId(2)

\* this step is a command called on a client that holds no socket: the
\* caller leaves "idle", and not into connect
CommandWhileDisconnected ==
    /\ prog = "api" /\ pc = "idle"
    /\ websocket = None
    /\ pc' \notin {"idle", "connect_recv"}
    /\ exc' # "ConnectionRefused"

\* C20: a command on a client that is not connected, never connected or
\* disconnected, fails with RuntimeError and leaves counter, wire, cache
\* and handle as they were.
CommandWhileDisconnectedFails ==
    [][CommandWhileDisconnected =>
          /\ pc' = "raised"
          /\ exc' = "RuntimeError"
          /\ UNCHANGED <<request_id, sent, scene_objects, websocket, sockOpen,
                         closeCalls>>]_vars

\* C20 witness: after one answered command and a disconnect, with u1 still
\* cached, a command failed with RuntimeError
CommandAfterDisconnectFailed ==
    /\ pc = "raised"
    /\ exc = "RuntimeError"
    /\ closeCalls = 1
    /\ request_id = 1
    /\ Len(sent) = 1
    /\ DOMAIN scene_objects = {"u1"}

\* C21: when simple_demo blocks on the receive whose result it prints as the
\* ping response, the ping envelope with request_id "demo-001" has been
\* written to the socket.
PingWrittenBeforeReceive ==
    (prog = "simple" /\ pc = "ping_recv") =>
        \E i \in DOMAIN sent : sent[i] = PingEnvelope

====
